---- MODULE Spec2Model ----
(***************************************************************************)
(* crawl.py: HAR log -> set of Endpoint records -> Markdown tree.          *)
(*                                                                         *)
(* Strings are sequences of one-character strings, so that slicing, find,  *)
(* split, startswith and the lexicographic order are computed as Python    *)
(* computes them.  Fixed pieces of text that the program writes verbatim   *)
(* (a Markdown heading, "</code>") are kept as one element of the line.    *)
(* A dict is the sequence of its <<key, value>> pairs in insertion order.  *)
(***************************************************************************)
EXTENDS Integers, Sequences, FiniteSets, TLC

VARIABLES
    base,       \* sys.argv[2]
    out_dir,    \* sys.argv[3]
    pc,         \* position of main(): extract, print, write_md, write_loop, done, failed
    err,        \* the exception that ended the run, "none" otherwise
    log,        \* the entries of data["log"]["entries"] iterated so far
    cur,        \* the Endpoint built by the last iteration of get_endpoints
    endpoints,  \* the set endpoints, in its iteration order
    stdout,     \* lines printed
    dirs,       \* directories on disk
    files,      \* files on disk: path -> lines
    wm_sorted,  \* write_md: the list sorted(endpoints) being iterated
    i,          \* write_md: the counter i
    arg,        \* pure-function harness: the request handed to the function
    called,     \* pure-function harness: the function applied
    ret         \* pure-function harness: its result

vars == <<base, out_dir, pc, err, log, cur, endpoints, stdout, dirs, files,
          wm_sorted, i, arg, called, ret>>

-----------------------------------------------------------------------------
(* Bounds *)

MaxEntries == 2

MaxTail == 4

-----------------------------------------------------------------------------
(* Python str *)

Code(c) ==
    CASE c = " " -> 32 [] c = "&" -> 38 [] c = "/" -> 47
      [] c = "0" -> 48 [] c = "1" -> 49 [] c = "2" -> 50 [] c = "3" -> 51
      [] c = "4" -> 52 [] c = "5" -> 53 [] c = "6" -> 54 [] c = "7" -> 55
      [] c = "8" -> 56 [] c = "9" -> 57
      [] c = "=" -> 61 [] c = "?" -> 63
      [] c = "E" -> 69 [] c = "G" -> 71 [] c = "I" -> 73 [] c = "N" -> 78
      [] c = "O" -> 79 [] c = "P" -> 80 [] c = "S" -> 83 [] c = "T" -> 84
      [] c = "U" -> 85
      [] c = "a" -> 97 [] c = "b" -> 98 [] c = "c" -> 99 [] c = "g" -> 103
      [] c = "h" -> 104 [] c = "o" -> 111 [] c = "r" -> 114
      [] c = "u" -> 117 [] c = "v" -> 118 [] c = "w" -> 119 [] c = "x" -> 120

RECURSIVE StrLess(_, _)
StrLess(a, b) ==
    IF a = <<>> THEN b # <<>>
    ELSE IF b = <<>> THEN FALSE
    ELSE IF Head(a) = Head(b) THEN StrLess(Tail(a), Tail(b))
    ELSE Code(Head(a)) < Code(Head(b))

\* s.find(c): zero-based index of the first c, -1 when there is none
Find(s, c) ==
    IF \E k \in 1..Len(s) : s[k] = c
    THEN (CHOOSE k \in 1..Len(s) : s[k] = c /\ \A j \in 1..(k - 1) : s[j] # c) - 1
    ELSE -1

\* s[n:]
SliceFrom(s, n) == SubSeq(s, n + 1, Len(s))

\* s[:n]
SliceTo(s, n) == SubSeq(s, 1, n)

StartsWith(s, p) == Len(p) <= Len(s) /\ SubSeq(s, 1, Len(p)) = p

\* s.count(c)
Count(s, c) == Cardinality({k \in 1..Len(s) : s[k] = c})

RECURSIVE Split(_, _)
Split(s, c) ==
    LET idx == Find(s, c)
    IN  IF idx = -1 THEN <<s>>
        ELSE <<SliceTo(s, idx)>> \o Split(SliceFrom(s, idx + 1), c)

Digit(n) == <<"0", "1", "2", "3", "4", "5", "6", "7", "8", "9">>[n + 1]

\* str(n), n >= 0
RECURSIVE Str(_)
Str(n) == IF n < 10 THEN <<Digit(n)>> ELSE Str(n \div 10) \o <<Digit(n % 10)>>

\* s * n ('../' * depth): empty for n <= 0
RECURSIVE Repeat(_, _)
Repeat(s, n) == IF n <= 0 THEN <<>> ELSE s \o Repeat(s, n - 1)

-----------------------------------------------------------------------------
(* Python dict, insertion-ordered *)

EmptyDict == <<>>

Keys(d) == [k \in 1..Len(d) |-> d[k][1]]

HasKey(d, key) == \E k \in 1..Len(d) : d[k][1] = key

Lookup(d, key) == d[CHOOSE k \in 1..Len(d) : d[k][1] = key][2]

\* d[key] = value: an existing key keeps its position
DictSet(d, key, value) ==
    IF HasKey(d, key)
    THEN [k \in 1..Len(d) |-> IF d[k][1] = key THEN <<key, value>> ELSE d[k]]
    ELSE Append(d, <<key, value>>)

Range(s) == {s[k] : k \in 1..Len(s)}

-----------------------------------------------------------------------------
(* Results of calls that may raise *)

Ok(v) == [err |-> "none", val |-> v]

Raise(e) == [err |-> e, val |-> <<>>]

-----------------------------------------------------------------------------
(* json.loads on the texts the logs carry: an object of string members,   *)
(* without whitespace.  Anything else in these logs is malformed.          *)

Quote == "\""

NoStr == [ok |-> FALSE, val |-> <<>>, next |-> 0]

ParseStr(s, k) ==
    IF k > Len(s) \/ s[k] # Quote THEN NoStr
    ELSE IF \E j \in (k + 1)..Len(s) : s[j] = Quote
    THEN LET j == CHOOSE j \in (k + 1)..Len(s) :
                      s[j] = Quote /\ \A m \in (k + 1)..(j - 1) : s[m] # Quote
         IN  [ok |-> TRUE, val |-> SubSeq(s, k + 1, j - 1), next |-> j + 1]
    ELSE NoStr

RECURSIVE ParseMembers(_, _, _)
ParseMembers(s, k, acc) ==
    LET name == ParseStr(s, k)
    IN  IF ~name.ok \/ name.next > Len(s) \/ s[name.next] # ":"
        THEN Raise("JSONDecodeError")
        ELSE LET value == ParseStr(s, name.next + 1)
             IN  IF ~value.ok \/ value.next > Len(s)
                 THEN Raise("JSONDecodeError")
                 ELSE LET acc2 == DictSet(acc, name.val, value.val)
                      IN  IF s[value.next] = "}"
                          THEN IF value.next = Len(s) THEN Ok(acc2)
                               ELSE Raise("JSONDecodeError")
                          ELSE IF s[value.next] = ","
                          THEN ParseMembers(s, value.next + 1, acc2)
                          ELSE Raise("JSONDecodeError")

json_loads(s) ==
    IF Len(s) < 2 \/ s[1] # "{" THEN Raise("JSONDecodeError")
    ELSE IF s[2] = "}"
    THEN IF Len(s) = 2 THEN Ok(EmptyDict) ELSE Raise("JSONDecodeError")
    ELSE ParseMembers(s, 2, EmptyDict)

-----------------------------------------------------------------------------
(* Extractor *)

\* get_url: url[-1] on the empty string raises IndexError
get_url(req, start) ==
    LET url0 == SliceFrom(req.url, start)
        idx  == Find(url0, "?")
        url1 == IF idx # -1 THEN SliceTo(url0, idx) ELSE url0
    IN  IF url1 = <<>> THEN Raise("IndexError")
        ELSE IF url1[Len(url1)] # "/" THEN Ok(url1 \o <<"/">>)
        ELSE Ok(url1)

RECURSIVE HeaderLoop(_, _)
HeaderLoop(array, headers) ==
    IF array = <<>> THEN headers
    ELSE HeaderLoop(Tail(array),
                    DictSet(headers, Head(array).name, Head(array).value))

get_headers(req) == HeaderLoop(req.headers, EmptyDict)

\* the loop of get_params: `param, value = pv.split("=")` raises ValueError
\* unless the split has exactly two parts, and the handler keeps part 0
RECURSIVE ParamLoop(_, _)
ParamLoop(tokens, params) ==
    IF tokens = <<>> THEN params
    ELSE LET parts == Split(Head(tokens), "=")
         IN  IF Len(parts) = 2
             THEN ParamLoop(Tail(tokens), DictSet(params, parts[1], parts[2]))
             ELSE ParamLoop(Tail(tokens), DictSet(params, parts[1], <<>>))

get_params(req) ==
    LET idx == Find(req.url, "?")
    IN  IF idx = -1 THEN EmptyDict
        ELSE ParamLoop(Split(SliceFrom(req.url, idx + 1), "&"), EmptyDict)

\* get_body with `except Exception`: text that is no JSON gives {} as well
get_body_lenient(req) ==
    IF "postData" \notin DOMAIN req THEN Ok(EmptyDict)
    ELSE IF "text" \notin DOMAIN req.postData THEN Ok(EmptyDict)
    ELSE IF json_loads(req.postData.text).err # "none" THEN Ok(EmptyDict)
    ELSE json_loads(req.postData.text)

\* only KeyError is caught
get_body(req) ==
    IF "postData" \notin DOMAIN req THEN Ok(EmptyDict)
    ELSE IF "text" \notin DOMAIN req.postData THEN Ok(EmptyDict)
    ELSE json_loads(req.postData.text)

get_content(res) ==
    IF "content" \notin DOMAIN res THEN Ok(EmptyDict)
    ELSE IF "text" \notin DOMAIN res.content THEN Ok(EmptyDict)
    ELSE json_loads(res.content.text)

-----------------------------------------------------------------------------
(* Endpoint: dataclass(frozen=True, order=True).  The generated __eq__    *)
(* and __lt__ compare (method, url) only, request and response being      *)
(* compare=False; __hash__ is the hand-written one.                        *)

Endpoint(method, url, request, response) ==
    [method |-> method, url |-> url, request |-> request, response |-> response]

Request(headers, params, body) ==
    [headers |-> headers, params |-> params, body |-> body]

Response(headers, content) == [headers |-> headers, content |-> content]

\* the tuple handed to hash(); hash() itself is taken to be injective on it
EndpointHash(e) ==
    <<e.method, e.url>> \o Keys(e.request.params) \o Keys(e.request.body)

EndpointEq(a, b) == a.method = b.method /\ a.url = b.url

EndpointLess(a, b) ==
    IF a.method # b.method THEN StrLess(a.method, b.method)
    ELSE StrLess(a.url, b.url)

\* set.add: an element with the same hash that compares equal stays
SetAdd(s, e) ==
    IF \E k \in 1..Len(s) :
           EndpointHash(s[k]) = EndpointHash(e) /\ EndpointEq(s[k], e)
    THEN s
    ELSE Append(s, e)

\* the orders in which a set of these elements may be iterated
IterationOrders(s) ==
    {t \in [1..Len(s) -> Range(s)] : Range(t) = Range(s)}

\* list.sort: stable, by __lt__
RECURSIVE SortFold(_, _)
SortFold(s, acc) ==
    IF s = <<>> THEN acc
    ELSE LET x == Head(s)
             after == {k \in 1..Len(acc) : EndpointLess(x, acc[k])}
             pos == IF after = {} THEN Len(acc) + 1
                    ELSE CHOOSE k \in after : \A j \in after : k <= j
         IN  SortFold(Tail(s),
                      SubSeq(acc, 1, pos - 1) \o <<x>> \o SubSeq(acc, pos, Len(acc)))

\* the set iterated as it comes
unsorted(s) == s

sorted(s) == SortFold(s, <<>>)

OPTIONS == <<"O", "P", "T", "I", "O", "N", "S">>

\* the filter without the OPTIONS test
AcceptedAnyMethod(req, b) == StartsWith(req.url, b)

Accepted(req, b) == req.method # OPTIONS /\ StartsWith(req.url, b)

NoEndpoint == Endpoint(<<>>, <<>>, Request(<<>>, <<>>, <<>>), Response(<<>>, <<>>))

\* one iteration of the loop of get_endpoints, in the order Python evaluates
\* the calls: request dicts, response dicts, then get_url
Iteration(entry, b) ==
    LET req == entry.request
        res == entry.response
        body == get_body(req)
        content == get_content(res)
        url == get_url(req, Len(b))
    IN  IF ~Accepted(req, b) THEN [err |-> "none", add |-> FALSE, ep |-> NoEndpoint]
        ELSE IF body.err # "none" THEN [err |-> body.err, add |-> FALSE, ep |-> NoEndpoint]
        ELSE IF content.err # "none"
        THEN [err |-> content.err, add |-> FALSE, ep |-> NoEndpoint]
        ELSE IF url.err # "none" THEN [err |-> url.err, add |-> FALSE, ep |-> NoEndpoint]
        ELSE [err |-> "none", add |-> TRUE,
              ep |-> Endpoint(req.method, url.val,
                              Request(get_headers(req), get_params(req), body.val),
                              Response(get_headers(res), content.val))]

-----------------------------------------------------------------------------
(* Renderer.  A file is the sequence of its lines; every write_* operator *)
(* takes the lines written so far and returns them with its own appended.  *)

\* the backquote character of the Markdown the program writes (a TLA+ string
\* cannot hold one)
Tick == "'"

\* write_table with a loop that stops one item early
write_table_short(f, dict, key_name, value_name) ==
    f \o <<(<<key_name, " | ", value_name>>), (<<":----- | :----">>)>>
      \o [k \in 1..(Len(dict) - 1) |->
             <<Tick>> \o dict[k][1] \o <<Tick, " | <code>">> \o dict[k][2] \o <<"</code>">>]
      \o << <<>> >>

write_table(f, dict, key_name, value_name) ==
    f \o <<(<<key_name, " | ", value_name>>), (<<":----- | :----">>)>>
      \o [k \in 1..Len(dict) |->
             <<Tick>> \o dict[k][1] \o <<Tick, " | <code>">> \o dict[k][2] \o <<"</code>">>]
      \o << <<>> >>

NonePlaceholder == << <<"| None |">>, <<"| :--- |">>, <<>> >>

POST == <<"P", "O", "S", "T">>

write_request(f, endpoint) ==
    LET f1 == f \o << <<"## Request">>, <<>>, <<"<details>">>,
                      <<"<summary>Headers</summary>">>, <<>> >>
        f2 == write_table(f1, endpoint.request.headers, "Header", "Value")
                  \o << <<"</details>">>, <<"### Parameters">>, <<>> >>
        f3 == IF Len(endpoint.request.params) > 0
              THEN write_table(f2, endpoint.request.params, "Parameter", "Value")
              ELSE f2 \o NonePlaceholder
    IN  IF endpoint.method = POST
        THEN LET f4 == f3 \o << <<"### Body">>, <<>> >>
             IN  IF Len(endpoint.request.body) > 0
                 THEN write_table(f4, endpoint.request.body, "Parameter", "Value")
                 ELSE f4 \o NonePlaceholder
        ELSE f3

\* the items of a dict ordered by key (sort_keys=True)
RECURSIVE SortItems(_, _)
SortItems(d, acc) ==
    IF d = <<>> THEN acc
    ELSE LET x == Head(d)
             after == {k \in 1..Len(acc) : StrLess(x[1], acc[k][1])}
             pos == IF after = {} THEN Len(acc) + 1
                    ELSE CHOOSE k \in after : \A j \in after : k <= j
         IN  SortItems(Tail(d),
                       SubSeq(acc, 1, pos - 1) \o <<x>> \o SubSeq(acc, pos, Len(acc)))

\* json.dumps(content, indent=4, sort_keys=True), as lines
json_dumps(content) ==
    IF content = <<>> THEN << <<"{}">> >>
    ELSE LET items == SortItems(content, <<>>)
         IN  << <<"{">> >>
             \o [k \in 1..Len(items) |->
                    <<"    ", Quote>> \o items[k][1] \o <<Quote, ": ", Quote>>
                        \o items[k][2] \o <<Quote>>
                        \o (IF k < Len(items) THEN <<",">> ELSE <<>>)]
             \o << <<"}">> >>

write_response(f, endpoint) ==
    LET f1 == f \o << <<"## Response">>, <<>>, <<"<details>">>,
                      <<"<summary>Headers</summary>">>, <<>> >>
        f2 == write_table(f1, endpoint.response.headers, "Header", "Value")
                  \o << <<"</details>">>, <<"### Content">>, <<>>, <<Tick, Tick, Tick>> >>
    IN  f2 \o json_dumps(endpoint.response.content) \o << <<Tick, Tick, Tick>> >>

\* the line main prints for an endpoint
PrintLine(endpoint) == endpoint.method \o <<" ">> \o endpoint.url

\* the link write_md appends to index.md for the endpoint numbered n
IndexLine(endpoint, n) ==
    <<"- [", Tick>> \o endpoint.method \o <<" ">> \o endpoint.url \o <<Tick, "](">>
        \o SliceFrom(endpoint.url, 1) \o endpoint.method \o <<"_">> \o Str(n)
        \o <<".html)">>

\* the path write_md opens for the page of the endpoint numbered n
PagePath(od, endpoint, n) ==
    od \o endpoint.url \o endpoint.method \o <<"_">> \o Str(n) \o <<".md">>

PageLines(endpoint) ==
    LET depth == Count(endpoint.url, "/") - 1
        f0 == << <<"[Back to index](">> \o Repeat(<<"../">>, depth)
                     \o <<"index.html)">>,
                 <<>>,
                 <<"## ", Tick>> \o endpoint.method \o <<" ">> \o endpoint.url \o <<Tick>>,
                 <<>> >>
    IN  write_response(write_request(f0, endpoint), endpoint)

IndexPath(od) == od \o <<"/index.md">>

\* os.makedirs(path, exist_ok=True): the directory and every ancestor
Makedirs(path) ==
    {SliceTo(path, k) : k \in {j \in 1..Len(path) :
                                 path[j] # "/" /\ (j = Len(path) \/ path[j + 1] = "/")}}

\* open(path, "w") then the writes
WriteFile(fs, path, lines) ==
    [p \in DOMAIN fs \cup {path} |-> IF p = path THEN lines ELSE fs[p]]

\* open(path, "a") then the writes
AppendFile(fs, path, lines) ==
    [p \in DOMAIN fs \cup {path} |->
        IF p = path THEN (IF path \in DOMAIN fs THEN fs[path] ELSE <<>>) \o lines
        ELSE fs[p]]

NoFiles == [p \in {} |-> <<>>]

-----------------------------------------------------------------------------
(* Inputs: the command line and the entries a log may hold *)

GET == <<"G", "E", "T">>

PUT == <<"P", "U", "T">>

BasePlain == <<"h", "/", "v">>

BaseSlash == <<"h", "/", "v", "/">>

Bases == {BasePlain, BaseSlash}

OutDirs == {<<"o">>, <<"o", "/">>}

Header(n, v) == [name |-> <<n>>, value |-> <<v>>]

UrlU == BasePlain \o <<"/", "u">>

\* {"x":"1"}
TextX1 == <<"{", Quote, "x", Quote, ":", Quote, "1", Quote, "}">>

\* {"a":"1","b":"2"}
TextAB == <<"{", Quote, "a", Quote, ":", Quote, "1", Quote, ",",
            Quote, "b", Quote, ":", Quote, "2", Quote, "}">>

\* {"r":"1"}
TextR1 == <<"{", Quote, "r", Quote, ":", Quote, "1", Quote, "}">>

\* {"r":"2"}
TextR2 == <<"{", Quote, "r", Quote, ":", Quote, "2", Quote, "}">>

\* {"x"   (cut short)
TextCut == <<"{", Quote, "x", Quote>>

NoText == [mimeType |-> <<"x">>]

Entries ==
    { \* GET /u?a=1&b=2, and the same names in the other order, and again
      \* with other values
      [request  |-> [method |-> GET, headers |-> <<Header("h", "1")>>,
                     url |-> UrlU \o <<"?", "a", "=", "1", "&", "b", "=", "2">>],
       response |-> [headers |-> <<Header("c", "1")>>, content |-> [text |-> TextR1]]],
      [request  |-> [method |-> GET, headers |-> <<Header("h", "2")>>,
                     url |-> UrlU \o <<"?", "b", "=", "3", "&", "a", "=", "4">>],
       response |-> [headers |-> <<Header("c", "2")>>, content |-> NoText]],
      [request  |-> [method |-> GET,
                     headers |-> <<Header("h", "3"), Header("h", "4")>>,
                     url |-> UrlU \o <<"?", "a", "=", "5", "&", "b", "=", "6">>],
       response |-> [headers |-> <<Header("c", "3")>>, content |-> [text |-> TextR2]]],
      \* POST /u/ with x in the query, and with x in the body
      [request  |-> [method |-> POST, headers |-> <<Header("x", "9")>>,
                     url |-> UrlU \o <<"/", "?", "x", "=", "1">>],
       response |-> [headers |-> <<>>, content |-> NoText]],
      [request  |-> [method |-> POST, headers |-> <<Header("h", "1")>>,
                     url |-> UrlU \o <<"/">>, postData |-> [text |-> TextX1]],
       response |-> [headers |-> <<Header("c", "1")>>, content |-> [text |-> TextR1]]],
      \* PUT with a body
      [request  |-> [method |-> PUT, headers |-> <<Header("h", "1")>>,
                     url |-> UrlU, postData |-> [text |-> TextAB]],
       response |-> [headers |-> <<Header("c", "1")>>, content |-> NoText]],
      \* preflight, and another host
      [request  |-> [method |-> OPTIONS, headers |-> <<>>,
                     url |-> UrlU \o <<"?", "a", "=", "1", "&", "b", "=", "2">>],
       response |-> [headers |-> <<>>, content |-> NoText]],
      [request  |-> [method |-> GET, headers |-> <<>>, url |-> <<"g", "/", "u">>],
       response |-> [headers |-> <<>>, content |-> NoText]],
      \* the base itself, bare and with a query
      [request  |-> [method |-> GET, headers |-> <<>>, url |-> BasePlain],
       response |-> [headers |-> <<>>, content |-> NoText]],
      [request  |-> [method |-> GET, headers |-> <<>>,
                     url |-> BasePlain \o <<"?", "a", "=", "1">>],
       response |-> [headers |-> <<>>, content |-> NoText]],
      [request  |-> [method |-> GET, headers |-> <<>>, url |-> BasePlain],
       response |-> [headers |-> <<>>, content |-> [text |-> TextCut]]],
      \* text that is no JSON, in the request and in the response
      [request  |-> [method |-> POST, headers |-> <<>>,
                     url |-> UrlU \o <<"/">>, postData |-> [text |-> TextCut]],
       response |-> [headers |-> <<>>, content |-> NoText]],
      [request  |-> [method |-> GET, headers |-> <<>>, url |-> UrlU],
       response |-> [headers |-> <<>>, content |-> [text |-> TextCut]]],
      \* a deeper path, postData without text, no content object
      [request  |-> [method |-> GET, headers |-> <<Header("h", "1")>>,
                     url |-> BasePlain \o <<"/", "w", "/", "u", "/">>,
                     postData |-> NoText],
       response |-> [headers |-> <<Header("c", "1")>>]] }

TailChars == {"/", "?", "&", "=", "a"}

Tails == UNION {[1..n -> TailChars] : n \in 0..MaxTail}

-----------------------------------------------------------------------------
(* main() *)

Init ==
    /\ base \in Bases
    /\ out_dir \in OutDirs
    /\ pc = "extract"
    /\ err = "none"
    /\ log = <<>>
    /\ cur = NoEndpoint
    /\ endpoints = <<>>
    /\ stdout = <<>>
    /\ dirs = {}
    /\ files = NoFiles
    /\ wm_sorted = <<>>
    /\ i = -1
    /\ arg = [url |-> <<>>]
    /\ called = "none"
    /\ ret = Ok(<<>>)

\* get_endpoints: one iteration of `for entry in data["log"]["entries"]`
ProcessEntry ==
    /\ pc = "extract"
    /\ Len(log) < MaxEntries
    /\ \E entry \in Entries :
          LET it == Iteration(entry, base)
          IN  /\ log' = Append(log, entry)
              /\ cur' = it.ep
              /\ IF it.err # "none"
                 THEN /\ pc' = "failed"
                      /\ err' = it.err
                      /\ UNCHANGED endpoints
                 ELSE /\ endpoints' = IF it.add THEN SetAdd(endpoints, it.ep)
                                      ELSE endpoints
                      /\ UNCHANGED <<pc, err>>
    /\ UNCHANGED <<base, out_dir, stdout, dirs, files, wm_sorted, i, arg, called, ret>>

\* get_endpoints returns: from here on the set is only iterated, every time
\* in the one order its hash table gives
Return ==
    /\ pc = "extract"
    /\ \E order \in IterationOrders(endpoints) : endpoints' = order
    /\ pc' = "print"
    /\ UNCHANGED <<base, out_dir, err, log, cur, stdout, dirs, files, wm_sorted, i,
                   arg, called, ret>>

\* main: for endpoint in sorted(endpoints): print(...)
PrintListing ==
    /\ pc = "print"
    /\ stdout' = stdout \o [k \in 1..Len(endpoints) |-> PrintLine(sorted(endpoints)[k])]
    /\ pc' = "write_md"
    /\ UNCHANGED <<base, out_dir, err, log, cur, endpoints, dirs, files, wm_sorted, i,
                   arg, called, ret>>

\* write_md up to the loop
WriteMdBegin ==
    /\ pc = "write_md"
    /\ LET od == IF out_dir[Len(out_dir)] = "/" THEN SliceTo(out_dir, Len(out_dir) - 1)
                 ELSE out_dir
       IN  /\ out_dir' = od
           /\ dirs' = dirs \cup Makedirs(od)
           /\ files' = WriteFile(files, IndexPath(od),
                                 << <<"## ", Tick>> \o base \o <<Tick>>, <<>> >>)
    /\ i' = -1
    /\ wm_sorted' = sorted(endpoints)
    /\ pc' = "write_loop"
    /\ UNCHANGED <<base, err, log, cur, endpoints, stdout, arg, called, ret>>

\* write_md: one iteration of `for endpoint in sorted(endpoints)`
WriteMdEndpoint ==
    /\ pc = "write_loop"
    /\ i + 1 < Len(wm_sorted)
    /\ i' = i + 1
    /\ LET endpoint == wm_sorted[i' + 1]
           dir == out_dir \o endpoint.url
       IN  /\ dirs' = dirs \cup Makedirs(dir)
           /\ files' = WriteFile(AppendFile(files, IndexPath(out_dir),
                                            <<IndexLine(endpoint, i')>>),
                                 PagePath(out_dir, endpoint, i'), PageLines(endpoint))
    /\ UNCHANGED <<base, out_dir, pc, err, log, cur, endpoints, stdout, wm_sorted,
                   arg, called, ret>>

\* write_md and main return
WriteMdReturn ==
    /\ pc = "write_loop"
    /\ i + 1 = Len(wm_sorted)
    /\ pc' = "done"
    /\ UNCHANGED <<base, out_dir, err, log, cur, endpoints, stdout, dirs, files,
                   wm_sorted, i, arg, called, ret>>

Next ==
    \/ ProcessEntry
    \/ Return
    \/ PrintListing
    \/ WriteMdBegin
    \/ WriteMdEndpoint
    \/ WriteMdReturn

Spec == Init /\ [][Next]_vars

-----------------------------------------------------------------------------
(* get_url and get_params applied to one request of an accepted entry *)

InitFn ==
    /\ base \in Bases
    /\ arg \in {[url |-> base \o t] : t \in Tails}
    /\ called = "none"
    /\ ret = Ok(<<>>)
    /\ out_dir = <<"o">>
    /\ pc = "harness"
    /\ err = "none"
    /\ log = <<>>
    /\ cur = NoEndpoint
    /\ endpoints = <<>>
    /\ stdout = <<>>
    /\ dirs = {}
    /\ files = NoFiles
    /\ wm_sorted = <<>>
    /\ i = -1

CallGetUrl ==
    /\ pc = "harness"
    /\ called = "none"
    /\ ret' = get_url(arg, Len(base))
    /\ called' = "get_url"
    /\ UNCHANGED <<base, out_dir, pc, err, log, cur, endpoints, stdout, dirs, files,
                   wm_sorted, i, arg>>

CallGetParams ==
    /\ pc = "harness"
    /\ called = "none"
    /\ ret' = Ok(get_params(arg))
    /\ called' = "get_params"
    /\ UNCHANGED <<base, out_dir, pc, err, log, cur, endpoints, stdout, dirs, files,
                   wm_sorted, i, arg>>

NextFn ==
    \/ CallGetUrl
    \/ CallGetParams

SpecFn == InitFn /\ [][NextFn]_vars

-----------------------------------------------------------------------------
(* Vocabulary of the properties *)

Returned == pc \in {"print", "write_md", "write_loop", "done"}

\* an entry the filter lets through
PassesFilter(entry) ==
    entry.request.method # OPTIONS /\ StartsWith(entry.request.url, base)

AcceptedAt == {k \in 1..Len(log) : PassesFilter(log[k])}

\* the structural key: method, normalized url, set of parameter names, set of
\* body field names
EntryKey(entry) ==
    <<entry.request.method, get_url(entry.request, Len(base)).val,
      Range(Keys(get_params(entry.request))),
      Range(Keys(get_body(entry.request).val))>>

EndpointKey(e) ==
    <<e.method, e.url, Range(Keys(e.request.params)), Range(Keys(e.request.body))>>

WithKey(key) == {n \in 1..Len(endpoints) : EndpointKey(endpoints[n]) = key}

\* C1: once get_endpoints has returned, two accepted entries with the same
\* structural key are represented by exactly one Endpoint of the set.
C1_SameKeyOneEndpoint ==
    Returned =>
        \A j \in AcceptedAt : \A k \in AcceptedAt :
            (j < k /\ EntryKey(log[j]) = EntryKey(log[k]))
                => Cardinality(WithKey(EntryKey(log[j]))) = 1

\* C2: once get_endpoints has returned, two accepted entries with different
\* structural keys are kept as two Endpoints, one with the key of each.
C2_DifferentKeyTwoEndpoints ==
    Returned =>
        \A j \in AcceptedAt : \A k \in AcceptedAt :
            EntryKey(log[j]) # EntryKey(log[k])
                => WithKey(EntryKey(log[j])) # {} /\ WithKey(EntryKey(log[k])) # {}

\* C3: every Endpoint of the set carries the headers, parameter values, body
\* values and response of the first accepted entry of the log that has the
\* Endpoint's structural key.
C3_FirstExampleKept ==
    pc # "failed" =>
        \A n \in 1..Len(endpoints) :
            LET same == {k \in AcceptedAt : EntryKey(log[k]) = EndpointKey(endpoints[n])}
            IN  /\ same # {}
                /\ LET first == CHOOSE k \in same : \A j \in same : k <= j
                   IN  endpoints[n] = Iteration(log[first], base).ep

\* C4: every Endpoint of the set has the method and normalized url of an
\* entry that is not OPTIONS and starts with the base, every such entry has
\* an Endpoint with its method and normalized url, and the other entries
\* add nothing.
C4_FilterExact ==
    pc # "failed" =>
        /\ \A n \in 1..Len(endpoints) :
              \E k \in 1..Len(log) :
                  /\ log[k].request.method # OPTIONS
                  /\ StartsWith(log[k].request.url, base)
                  /\ endpoints[n].method = log[k].request.method
                  /\ endpoints[n].url = get_url(log[k].request, Len(base)).val
        /\ \A k \in 1..Len(log) :
              (log[k].request.method # OPTIONS /\ StartsWith(log[k].request.url, base))
                  => \E n \in 1..Len(endpoints) :
                         /\ endpoints[n].method = log[k].request.method
                         /\ endpoints[n].url = get_url(log[k].request, Len(base)).val
        /\ Len(endpoints) <= Cardinality(AcceptedAt)

\* the run is over, an OPTIONS entry or an entry of another host was
\* skipped and an entry was accepted
C4_Witness ==
    /\ pc = "done"
    /\ Len(log) = 2
    /\ ~PassesFilter(log[1])
    /\ PassesFilter(log[2])
    /\ Len(endpoints) = 1

HasText(obj, field) == field \in DOMAIN obj /\ "text" \in DOMAIN obj[field]

Unparseable(obj, field) == HasText(obj, field) /\ json_loads(obj[field].text).err # "none"

NothingWritten == stdout = <<>> /\ dirs = {} /\ DOMAIN files = {}

\* C6: for the accepted entry the loop has just handled: text that is
\* present and is no JSON ends the run with the decoding error, nothing
\* printed and nothing on disk; a missing postData, postData.text or
\* content.text gives the empty mapping and the run goes on.
C6_AbsentVersusMalformed ==
    /\ pc = "failed" => NothingWritten
    /\ (Len(log) > 0 /\ PassesFilter(log[Len(log)])) =>
          LET req == log[Len(log)].request
              res == log[Len(log)].response
              bad == Unparseable(req, "postData") \/ Unparseable(res, "content")
          IN  /\ bad => pc = "failed" /\ err = "JSONDecodeError"
              /\ (~bad /\ get_url(req, Len(base)).err = "none") =>
                    /\ pc # "failed"
                    /\ ~HasText(req, "postData") => cur.request.body = EmptyDict
                    /\ ~HasText(res, "content") => cur.response.content = EmptyDict

\* an entry without postData was stored with an empty body, then an entry
\* with unparseable text ended the run
C6_Witness ==
    /\ pc = "failed"
    /\ err = "JSONDecodeError"
    /\ Len(log) = 2
    /\ ~HasText(log[1].request, "postData")
    /\ Len(endpoints) = 1
    /\ endpoints[1].request.body = EmptyDict
    /\ Unparseable(log[2].request, "postData")

-----------------------------------------------------------------------------
(* Reading the output back *)

\* the first k with from <= k and line[k] = c, 0 when there is none
IndexFrom(line, c, from) ==
    IF \E k \in from..Len(line) : line[k] = c
    THEN CHOOSE k \in from..Len(line) :
             line[k] = c /\ \A j \in from..(k - 1) : line[j] # c
    ELSE 0

\* the link lines of index.md, after its two heading lines
IndexLinks ==
    IF IndexPath(out_dir) \in DOMAIN files
    THEN SubSeq(files[IndexPath(out_dir)], 3, Len(files[IndexPath(out_dir)]))
    ELSE <<>>

\* the label of a link line: the text between "- [" backquote and backquote "]("
LinkLabel(line) == SubSeq(line, 3, IndexFrom(line, Tick, 3) - 1)

\* the target of a link line: the text between "](" and ".html)"
LinkTarget(line) == SubSeq(line, IndexFrom(line, "](", 1) + 1, Len(line) - 1)

LineMethod(line) == SliceTo(line, Find(line, " "))

LineUrl(line) == SliceFrom(line, Find(line, " ") + 1)

\* (method, url) of line a <= (method, url) of line b
LineLeq(a, b) ==
    IF LineMethod(a) # LineMethod(b) THEN StrLess(LineMethod(a), LineMethod(b))
    ELSE ~StrLess(LineUrl(b), LineUrl(a))

\* C7: the links of index.md carry, in the same order, the lines printed:
\* while write_md loops, those of the endpoints written so far, and all of
\* them at the end; the printed lines are one per Endpoint of the set and
\* are non-decreasing by (method, url).
C7_ListingAndIndexAgree ==
    /\ pc \in {"write_md", "write_loop", "done"} =>
          /\ \E order \in IterationOrders(endpoints) :
                 stdout = [k \in 1..Len(endpoints) |-> PrintLine(order[k])]
          /\ \A k \in 1..(Len(stdout) - 1) : LineLeq(stdout[k], stdout[k + 1])
    /\ pc \in {"write_loop", "done"} =>
          /\ Len(IndexLinks) = i + 1
          /\ [k \in 1..Len(IndexLinks) |-> LinkLabel(IndexLinks[k])]
                 = SubSeq(stdout, 1, i + 1)
    /\ pc = "done" => Len(IndexLinks) = Len(stdout)

\* the run is over with two endpoints that the set iterated in the order
\* opposite to the sorted one
C7_Witness ==
    /\ pc = "done"
    /\ Len(endpoints) = 2
    /\ Len(stdout) = 2
    /\ stdout[1] # stdout[2]
    /\ PrintLine(endpoints[1]) = stdout[2]
    /\ Len(IndexLinks) = 2

\* the index of the first line equal to marker, 0 when there is none
LineOf(page, marker) ==
    IF \E k \in 1..Len(page) : page[k] = marker
    THEN CHOOSE k \in 1..Len(page) : page[k] = marker /\ \A j \in 1..(k - 1) : page[j] # marker
    ELSE 0

IsRow(line) == Len(line) >= 2 /\ line[1] = Tick /\ line[Len(line)] = "</code>"

RowKey(line) == SubSeq(line, 2, IndexFrom(line, Tick, 2) - 1)

RowValue(line) == SubSeq(line, IndexFrom(line, Tick, 2) + 2, Len(line) - 1)

\* the table rows strictly between two lines of a page, as <<key, value>>
RowsBetween(page, lo, hi) ==
    LET at == {k \in (lo + 1)..(hi - 1) : IsRow(page[k])}
    IN  {<<k, RowKey(page[k]), RowValue(page[k])>> : k \in at}

RequestLine(page) == LineOf(page, <<"## Request">>)

ParametersLine(page) == LineOf(page, <<"### Parameters">>)

BodyLine(page) == LineOf(page, <<"### Body">>)

ResponseLine(page) == LineOf(page, <<"## Response">>)

ContentLine(page) == LineOf(page, <<"### Content">>)

RequestHeaderRows(page) == RowsBetween(page, RequestLine(page), ParametersLine(page))

ParameterRows(page) ==
    RowsBetween(page, ParametersLine(page),
                IF BodyLine(page) # 0 THEN BodyLine(page) ELSE ResponseLine(page))

BodyRows(page) ==
    IF BodyLine(page) = 0 THEN {}
    ELSE RowsBetween(page, BodyLine(page), ResponseLine(page))

ResponseHeaderRows(page) == RowsBetween(page, ResponseLine(page), ContentLine(page))

\* every key of the mapping has exactly one row among rows
EachKeyOnce(dict, rows) ==
    \A k \in 1..Len(dict) : Cardinality({r \in rows : r[2] = dict[k][1]}) = 1

\* the rows are those of the mapping, key and value, and no others
RowsAre(dict, rows) ==
    /\ EachKeyOnce(dict, rows)
    /\ Cardinality(rows) = Len(dict)
    /\ \A r \in rows : HasKey(dict, r[2]) /\ Lookup(dict, r[2]) = r[3]

\* the endpoints whose page write_md has written, by ordinal
Written == 0..i

PageOf(n) == files[PagePath(out_dir, wm_sorted[n + 1], n)]

\* C8 as stated: in the page of every endpoint, of any method, every key of
\* the request headers, of the params, of the body and of the response
\* headers has exactly one row in the table of its mapping.
C8_EveryKeyOneRow ==
    pc \in {"write_loop", "done"} =>
        \A n \in Written :
            /\ EachKeyOnce(wm_sorted[n + 1].request.headers, RequestHeaderRows(PageOf(n)))
            /\ EachKeyOnce(wm_sorted[n + 1].request.params, ParameterRows(PageOf(n)))
            /\ EachKeyOnce(wm_sorted[n + 1].request.body, BodyRows(PageOf(n)))
            /\ EachKeyOnce(wm_sorted[n + 1].response.headers, ResponseHeaderRows(PageOf(n)))

\* C8 amended: in the page of every endpoint the rows of the request headers
\* table, of the parameters table and of the response headers table are
\* those of the mapping, one per key; the body has such a table when the
\* method is POST, and no section and no row at all for any other method.
C8_EveryKeyOneRowBodyForPost ==
    pc \in {"write_loop", "done"} =>
        \A n \in Written :
            /\ RowsAre(wm_sorted[n + 1].request.headers, RequestHeaderRows(PageOf(n)))
            /\ RowsAre(wm_sorted[n + 1].request.params, ParameterRows(PageOf(n)))
            /\ RowsAre(wm_sorted[n + 1].response.headers, ResponseHeaderRows(PageOf(n)))
            /\ IF wm_sorted[n + 1].method = POST
               THEN /\ BodyLine(PageOf(n)) # 0
                    /\ RowsAre(wm_sorted[n + 1].request.body, BodyRows(PageOf(n)))
               ELSE BodyLine(PageOf(n)) = 0 /\ BodyRows(PageOf(n)) = {}

\* the pages of a POST endpoint with a body and of another endpoint with a
\* body are both written
C8_Witness ==
    /\ pc = "done"
    /\ \E n \in Written :
          /\ wm_sorted[n + 1].method = POST
          /\ wm_sorted[n + 1].request.body # EmptyDict
          /\ BodyRows(PageOf(n)) # {}
    /\ \E n \in Written :
          /\ wm_sorted[n + 1].method # POST
          /\ wm_sorted[n + 1].request.body # EmptyDict
          /\ wm_sorted[n + 1].request.headers # EmptyDict

\* the non-empty segments of a url, each followed by "/"
RECURSIVE JoinSegments(_)
JoinSegments(parts) ==
    IF parts = <<>> THEN <<>>
    ELSE (IF Head(parts) = <<>> THEN <<>> ELSE Head(parts) \o <<"/">>)
             \o JoinSegments(Tail(parts))

\* <url-path-segments>/<METHOD>_<ordinal>, relative to the output directory
RelativeStem(endpoint, n) ==
    JoinSegments(Split(endpoint.url, "/")) \o endpoint.method \o <<"_">> \o Str(n)

PagePaths == DOMAIN files \ {IndexPath(out_dir)}

\* C9: when write_md is over, the pages are exactly one per endpoint, the
\* endpoint at position n of the sorted sequence having its page at
\* <outDir>/<url-path-segments>/<METHOD>_<n>.md, inside outDir, and its
\* index link naming that path relative to outDir.
C9_PagePaths ==
    pc = "done" =>
        /\ Cardinality(PagePaths) = Len(wm_sorted)
        /\ \A n \in 0..(Len(wm_sorted) - 1) :
              /\ (out_dir \o <<"/">> \o RelativeStem(wm_sorted[n + 1], n) \o <<".md">>)
                     \in PagePaths
              /\ LinkTarget(IndexLinks[n + 1]) = RelativeStem(wm_sorted[n + 1], n)

\* C5: for the request of an accepted entry, get_url returns the url with
\* the base stripped and cut at the first "?", with "/" appended unless it
\* ends in one already: a result that ends in "/" and holds no "?".
C5_UrlNormalized ==
    called = "get_url" =>
        LET rest == SliceFrom(arg.url, Len(base))
            path == IF Find(rest, "?") = -1 THEN rest ELSE SliceTo(rest, Find(rest, "?"))
        IN  /\ ret.err = "none"
            /\ ret.val # <<>>
            /\ ret.val[Len(ret.val)] = "/"
            /\ "?" \notin Range(ret.val)
            /\ \/ ret.val = path
               \/ /\ ret.val = path \o <<"/">>
                  /\ path = <<>> \/ path[Len(path)] # "/"

ClaimedName(token) ==
    IF Find(token, "=") = -1 THEN token ELSE SliceTo(token, Find(token, "="))

ClaimedValue(token) ==
    IF Find(token, "=") = -1 THEN <<>> ELSE SliceFrom(token, Find(token, "=") + 1)

\* C10: get_params returns the empty mapping for a url without "?", and
\* otherwise maps, for every "&"-separated token after the first "?", the
\* name of the token (the token itself when it has no "=") to the value of
\* the last token of that name (empty when that token has no "=").
C10_ParamsParsed ==
    called = "get_params" =>
        IF Find(arg.url, "?") = -1 THEN ret.val = EmptyDict
        ELSE LET tokens == Split(SliceFrom(arg.url, Find(arg.url, "?") + 1), "&")
             IN  /\ Range(Keys(ret.val)) = {ClaimedName(tokens[k]) : k \in 1..Len(tokens)}
                 /\ \A k \in 1..Len(tokens) :
                       (\A j \in (k + 1)..Len(tokens) :
                            ClaimedName(tokens[j]) # ClaimedName(tokens[k]))
                           => Lookup(ret.val, ClaimedName(tokens[k]))
                                  = ClaimedValue(tokens[k])

====
